---- MODULE Spec2Model ----
(***************************************************************************)
(* The checkout transaction engine of the POS backend: the in-memory cart *)
(* registry, the cart handlers (start, add, discount, updateLine,         *)
(* removeLine) and the settlement handler (complete) with its persistence *)
(* calls.  The server is a single Node.js process: a handler runs without *)
(* interruption from the arrival of its request to its first await, and   *)
(* from the resumption of one await to the next.  Every such segment is   *)
(* one action; the segments of different requests interleave freely.      *)
(*                                                                         *)
(* Money is kept exact: an amount is an integer number of 1/20000 rupee   *)
(* (1/200 paisa), so every percentage and every half the model takes is   *)
(* an exact integer division.  The rounding error of IEEE-754 doubles is  *)
(* not modelled.                                                          *)
(***************************************************************************)
EXTENDS Integers, Sequences, FiniteSets, Bags, TLC

\* ------------------------------------------------------------------ bounds
\* Requests accepted over a run (every route of the checkout API counts, and so
\* does a change of the catalogue).
MaxOps == 4
\* Lines a cart object may hold (Array.push is unbounded in the code).
MaxLines == 2
\* Requests suspended on an await at the same time.
MaxReq == 2

\* ------------------------------------------------------- catalogue and inputs
Rupee == 2 * 100 * 100
Paisa == Rupee \div 100

\* The persisted catalogue the handlers look items up in.  Item 1 is the seeded
\* 'Basmati Rice 1kg' (mrp 120, GST 5%, barcode 8900000000011); item 2 is an
\* item created through POST /api/items without a tax (taxId is optional).
\* taxId 0 stands for null.
ItemIds == {1, 2}
ItemRow(id) ==
    IF id = 1 THEN [id |-> 1, mrp |-> 120 * Rupee, taxId |-> 2]
              ELSE [id |-> 2, mrp |-> 30 * Rupee, taxId |-> 0]
BarcodeItem(code) == IF code = "8900000000011" THEN 1 ELSE 0

\* Tax rows as seeded (id -> rate in percent): 'GST 0%', 'GST 5%', 'GST 12%'
TaxIds == {1, 2, 3}
SeededTaxes == [id \in TaxIds |-> IF id = 1 THEN 0 ELSE IF id = 2 THEN 5 ELSE 12]
\* the percentage a Tax row is changed to in the store
RateInputs == {12}

\* Request bodies the model submits.
\* { itemId?, barcode? } of add: "" and 0 are 'not supplied'; item 9 does not exist
ItemKeys == { [barcode |-> "8900000000011", itemId |-> 0], [barcode |-> "", itemId |-> 2],
              [barcode |-> "", itemId |-> 9], [barcode |-> "", itemId |-> 0] }
\* qty of add; the handler takes any number
QtyInputs == {1, -1}
\* the bodies of add: every key with qty 1, and item 2 with qty -1
AddInputs == { b \in [key : ItemKeys, qty : QtyInputs] : b.qty = 1 \/ b.key.itemId = 2 }
\* discountPercent of discount; the handler takes any number
PercentInputs == {10, 150}
\* { quantity?, unitPrice?, discount? } of updateLine: <<>> is 'not supplied',
\* <<v>> is the value v
Patch(q, u, d) == [quantity |-> q, unitPrice |-> u, discount |-> d]
PatchInputs == { Patch(<<0>>, <<999 * (Rupee \div 10)>>, <<40 * Rupee>>),
                 Patch(<<2>>, << >>, << >>),
                 Patch(<< >>, <<999 * (Rupee \div 10)>>, << >>),
                 Patch(<< >>, << >>, <<40 * Rupee>>) }
\* lineIndex of updateLine and removeLine (0-based): <<i>> is the number i, and
\* << >> is a lineIndex that is missing or not numeric, which Number() turns to NaN
IndexInputs == { << >>, << -1 >> } \cup { << i >> : i \in 0..(MaxLines - 1) }
Tender(m, a, ref) == [method |-> m, amount |-> a, reference |-> ref]
PaymentInputs == { << >>,
                   << Tender("CASH", 1 * Rupee, "") >>,
                   << Tender("upi", 0, "upi-txn-123"),
                      Tender("gold", 30 * Rupee, "") >> }
\* Math.floor(Math.random() * 1000) draws 0..999; the model draws from these.
RandomDraws == {0, 1}

\* ------------------------------------------------------------ pure helpers
\* Array.prototype.reduce((s, x) => s + x, 0)
RECURSIVE Sum(_)
Sum(s) == IF s = << >> THEN 0 ELSE Head(s) + Sum(Tail(s))

Percent(x, p) == (x * p) \div 100

\* s with its i-th element removed (Array.prototype.splice(i-1, 1))
\* mutant of Splice: the last element is the one taken out
SpliceLast(s, i) == SubSeq(s, 1, Len(s) - 1)
Splice(s, i) == [k \in 1..(Len(s) - 1) |-> IF k < i THEN s[k] ELSE s[k + 1]]

RECURSIVE Digits(_)
Digits(n) == IF n < 10 THEN << n >> ELSE Append(Digits(n \div 10), n % 10)

\* `R${Date.now()}${Math.floor(Math.random() * 1000)}`: the decimal digits of
\* the clock followed by those of the draw (the constant prefix R is left out).
receiptNumber(clock, draw) == Digits(clock) \o Digits(draw)

\* String(p.method || '').toUpperCase() || 'CASH'
methodName(m) ==
    IF m = "" THEN "CASH"
    ELSE IF m = "upi" THEN "UPI"
    ELSE IF m = "gold" THEN "GOLD"
    ELSE m

\* The line POST /api/checkout/add builds from an item, the tax row found for it
\* (rate, or -1 when the item has no tax or the row is missing) and qty.
\* Field rate is history, not a field of CartLine: the percentage the line was
\* priced with.
NewLine(item, taxId, rate, qty) ==
    LET unitPrice == item.mrp
        taxAmount == IF rate >= 0 THEN Percent(unitPrice * qty, rate) ELSE 0
    IN [itemId |-> item.id, quantity |-> qty, unitPrice |-> unitPrice,
        discount |-> 0, taxRateId |-> IF rate >= 0 THEN taxId ELSE 0,
        taxAmount |-> taxAmount, lineTotal |-> unitPrice * qty + taxAmount,
        rate |-> rate]

\* mutant of DiscountLine: the percentage is taken of what earlier discounts left
DiscountLineCompounding(l, pct) ==
    LET d == l.discount + Percent(l.unitPrice * l.quantity - l.discount, pct)
        t == l.unitPrice * l.quantity - d + l.taxAmount
    IN [l EXCEPT !.discount = d, !.lineTotal = t]
\* POST /api/checkout/discount, the map over cart.lines
DiscountLine(l, pct) ==
    LET d == Percent(l.unitPrice * l.quantity, pct)
        t == l.unitPrice * l.quantity - d + l.taxAmount
    IN [l EXCEPT !.discount = d, !.lineTotal = t]
\* mutant of DiscountLines: a line that carries a discount keeps it
DiscountUndiscountedLines(lines, pct) ==
    [k \in 1..Len(lines) |-> IF lines[k].discount # 0 THEN lines[k]
                             ELSE DiscountLine(lines[k], pct)]
DiscountLines(lines, pct) == [k \in 1..Len(lines) |-> DiscountLine(lines[k], pct)]

\* POST /api/checkout/updateLine, the three conditional field writes
PatchLine(l, patch) ==
    [l EXCEPT !.quantity = IF patch.quantity # << >> THEN patch.quantity[1] ELSE @,
              !.unitPrice = IF patch.unitPrice # << >> THEN patch.unitPrice[1] ELSE @,
              !.discount = IF patch.discount # << >> THEN patch.discount[1] ELSE @]

\* POST /api/checkout/updateLine, 'Recompute tax & totals'
RecomputeLine(l, taxRatePct) ==
    LET base == l.unitPrice * l.quantity
        taxAmount == Percent(base - l.discount, taxRatePct)
    IN [l EXCEPT !.taxAmount = taxAmount, !.lineTotal = base - l.discount + taxAmount]

\* mutant of Totals: the grand total leaves the tax out
TotalsBeforeTax(lines) ==
    LET totalTax == Sum([k \in 1..Len(lines) |-> lines[k].taxAmount])
        base == Sum([k \in 1..Len(lines) |-> lines[k].unitPrice * lines[k].quantity])
        disc == Sum([k \in 1..Len(lines) |-> lines[k].discount])
    IN [totalBeforeDiscount |-> base, totalDiscount |-> disc, totalTax |-> totalTax,
        totalAmount |-> base - disc,
        cgst |-> totalTax \div 2, sgst |-> totalTax \div 2, igst |-> 0]

\* mutant of GstSplit: the whole tax is booked as integrated GST
GstSplitInterState(totalTax) == [cgst |-> 0, sgst |-> 0, igst |-> totalTax]
\* POST /api/checkout/complete, the four reduce calls and the GST split
GstSplit(totalTax) == [cgst |-> totalTax \div 2, sgst |-> totalTax \div 2, igst |-> 0]
Totals(lines) ==
    LET totalTax == Sum([k \in 1..Len(lines) |-> lines[k].taxAmount])
    IN [totalBeforeDiscount |->
            Sum([k \in 1..Len(lines) |-> lines[k].unitPrice * lines[k].quantity]),
        totalDiscount |-> Sum([k \in 1..Len(lines) |-> lines[k].discount]),
        totalTax |-> totalTax,
        totalAmount |-> Sum([k \in 1..Len(lines) |-> lines[k].lineTotal])]
       @@ GstSplit(totalTax)

\* lines: { create: cart.lines.map(...) } of prisma.receipt.create
ReceiptLine(l) ==
    [itemId |-> l.itemId, quantity |-> l.quantity, unitPrice |-> l.unitPrice,
     discount |-> l.discount, taxAmount |-> l.taxAmount, lineTotal |-> l.lineTotal,
     taxRateId |-> l.taxRateId]
ReceiptLines(lines) == [k \in 1..Len(lines) |-> ReceiptLine(lines[k])]

Abs(n) == IF n < 0 THEN -n ELSE n
Max(a, b) == IF a >= b THEN a ELSE b

\* the cashier screen: clamp2 = Math.max(0, Math.round(n * 100) / 100), rounding
\* to the paisa (Math.round takes a half upwards)
clamp2(n) == Max(0, ((n + Paisa \div 2) \div Paisa) * Paisa)
due(grandTotal, paidTotal) == clamp2(Max(0, grandTotal - paidTotal))
change(grandTotal, paidTotal) == clamp2(Max(0, paidTotal - grandTotal))
\* the cashier screen's grandTotal of the cart it shows and paidTotal of the
\* tenders keyed in: the reduce over lineTotal and the reduce over amount
GrandTotalOf(lines) == Sum([n \in 1..Len(lines) |-> lines[n].lineTotal])
PaidTotalOf(tenders) == Sum([n \in 1..Len(tenders) |-> tenders[n].amount])
\* data of prisma.stockLedger.create for one line
StockEntry(l, reference) ==
    [itemId |-> l.itemId, quantity |-> -Abs(l.quantity), type |-> "SALE",
     reference |-> reference]

\* ------------------------------------------------------------------- state
VARIABLES
    carts,           \* keys of the registry `carts` (each key maps to heap[key])
    heap,            \* cart objects ever created: id -> [id, lines]
    nextId,          \* the next cart id uuid() returns
    req,             \* the bag of handlers suspended on an await (their frames)
    receipts,        \* Receipt rows with their lines and payments, in insert order
    audit,           \* history: per receipt, its cart, the tenders submitted, how its settle ended
    stockLedger,     \* StockLedger rows, in insert order
    paymentMethods,  \* PaymentMethod rows
    taxes,           \* Tax rows: id -> rate in percent
    now,             \* the last value Date.now() returned
    nops,            \* requests accepted so far
    last             \* the last response sent

vars == << carts, heap, nextId, req, receipts, audit, stockLedger, paymentMethods,
           taxes, now, nops, last >>

\* the rate prisma.tax.findUnique returns for a Tax row
TaxRate(id) == taxes[id]

\* entry: the response was sent before the handler's first await
Response(op, c, status, entry, rid) ==
    [op |-> op, cart |-> c, status |-> status, entry |-> entry, receipt |-> rid]

SeededMethods == { [code |-> "CASH", name |-> "Cash"], [code |-> "UPI", name |-> "UPI"],
                   [code |-> "CARD", name |-> "Card"], [code |-> "WALLET", name |-> "Wallet"] }

Init ==
    /\ carts = {}
    /\ heap = << >>
    /\ nextId = 1
    /\ req = EmptyBag
    /\ receipts = << >>
    /\ audit = << >>
    /\ stockLedger = << >>
    /\ paymentMethods = SeededMethods
    /\ taxes = SeededTaxes
    /\ now = 1
    /\ nops = 0
    /\ last = Response("none", 0, "none", TRUE, 0)

\* cart ids a request may name: every id issued so far, and 0, which never is
CartInputs == 0..(nextId - 1)

Frames == BagToSet(req)
HasFree == BagCardinality(req) < MaxReq
Suspend(f) == req (+) SetToBag({f})
Resume(f) == req (-) SetToBag({f})
Continue(f, g) == (req (-) SetToBag({f})) (+) SetToBag({g})

Accept == nops < MaxOps /\ nops' = nops + 1

\* mutant of HasCart: every id the registry has handed out is still found
HasCartOnceIssued(c) == c \in 1..(nextId - 1)
\* carts[cartId] is a cart: the lookup every handler starts with
HasCart(c) == c \in carts

Lines(c) == heap[c].lines
SetLines(c, ls) == [heap EXCEPT ![c].lines = ls]

\* ---------------------------------------------------- references across awaits
\* A suspended updateLine holds the line object it fetched: field ref is that
\* object's current position in its cart's array, 0 once the object is in no array.
RefAfterSplice(f, c, i) ==
    IF f.pc = "upd.tax" /\ f.cart = c
    THEN [f EXCEPT !.ref = IF @ = i THEN 0 ELSE IF @ > i THEN @ - 1 ELSE @]
    ELSE f

\* cart.lines = cart.lines.map(...) puts new line objects in a new array: a held
\* line object is in no array any more, and a running for..of keeps the old array.
RefAfterReplace(f, c, old) ==
    IF f.pc = "upd.tax" /\ f.cart = c THEN [f EXCEPT !.ref = 0]
    ELSE IF f.pc = "set.stock" /\ f.cart = c /\ f.live
         THEN [f EXCEPT !.live = FALSE, !.rest = SubSeq(old, f.idx, Len(old))]
    ELSE f

\* cart.lines.splice(i - 1, 1)
SpliceLine(c, i) ==
    LET Moved(f) == RefAfterSplice(f, c, i)
    IN /\ heap' = SetLines(c, Splice(Lines(c), i))
       /\ req' = BagOfAll(Moved, req)

\* ----------------------------------------------------------------- catalogue
\* The Tax rows live in the store the handlers read; the rate of a row is changed
\* there by a later seed run or by the back office (prisma.tax.upsert with
\* update: { rate }).  The model changes the rate of one row once, while a cart
\* of the registry holds a line taxed with it, and counts the change among the
\* steps MaxOps bounds.
SetTaxRate(id, rate) ==
    /\ Accept
    /\ taxes = SeededTaxes
    /\ taxes[id] # rate
    /\ \E c \in carts : \E n \in 1..Len(heap[c].lines) : heap[c].lines[n].taxRateId = id
    /\ taxes' = [taxes EXCEPT ![id] = rate]
    /\ UNCHANGED << carts, heap, nextId, req, receipts, audit, stockLedger,
                    paymentMethods, now, last >>

\* ------------------------------------------------------------------- start
\* mutant of Start: a new session takes the place of the open ones
StartClearing ==
    /\ Accept
    /\ heap' = Append(heap, [id |-> nextId, lines |-> << >>])
    /\ carts' = {nextId}
    /\ nextId' = nextId + 1
    /\ last' = Response("start", nextId, "ok", TRUE, 0)
    /\ UNCHANGED << taxes, req, receipts, audit, stockLedger, paymentMethods, now >>
Start ==
    /\ Accept
    /\ heap' = Append(heap, [id |-> nextId, lines |-> << >>])
    /\ carts' = carts \cup {nextId}
    /\ nextId' = nextId + 1
    /\ last' = Response("start", nextId, "ok", TRUE, 0)
    /\ UNCHANGED << taxes, req, receipts, audit, stockLedger, paymentMethods, now >>

\* --------------------------------------------------------------------- add
PendingAdds(c) ==
    LET adds == { f \in Frames : f.pc \in {"add.item", "add.tax"} /\ f.cart = c }
    IN BagCardinality([f \in adds |-> req[f]])

\* cart.lines.push(line); res.json(cart)
\* mutant of Push: a scan of an item the cart already holds raises the quantity
\* of the line that holds it
PushMerging(f, line) ==
    LET held == { n \in 1..Len(Lines(f.cart)) : Lines(f.cart)[n].itemId = line.itemId }
        n == CHOOSE n \in held : TRUE
    IN /\ heap' = SetLines(f.cart,
                     IF held = {} THEN Append(Lines(f.cart), line)
                     ELSE [Lines(f.cart) EXCEPT ![n].quantity = @ + line.quantity])
       /\ req' = Resume(f)
       /\ last' = Response("add", f.cart, "ok", FALSE, 0)
Push(f, line) ==
    /\ heap' = SetLines(f.cart, Append(Lines(f.cart), line))
    /\ req' = Resume(f)
    /\ last' = Response("add", f.cart, "ok", FALSE, 0)

\* arrival of POST /api/checkout/add, up to its first await
AddEntry(c, key, qty) ==
    /\ Accept
    /\ \/ /\ ~HasCart(c)
          /\ last' = Response("add", c, "CartNotFound", TRUE, 0)
          /\ UNCHANGED req
       \/ /\ HasCart(c)
          /\ key.barcode = "" /\ key.itemId = 0
          /\ last' = Response("add", c, "ItemNotFound", TRUE, 0)
          /\ UNCHANGED req
       \/ /\ HasCart(c)
          /\ key.barcode # "" \/ key.itemId # 0
          /\ HasFree
          /\ Len(Lines(c)) + PendingAdds(c) < MaxLines
          /\ req' = Suspend([pc |-> "add.item", cart |-> c, key |-> key, qty |-> qty])
          /\ UNCHANGED last
    /\ UNCHANGED << taxes, carts, heap, nextId, receipts, audit, stockLedger, paymentMethods, now >>

\* prisma.barcode.findUnique / prisma.item.findUnique: the item id found, 0 for null
FindItem(key) ==
    IF key.barcode # "" THEN BarcodeItem(key.barcode)
    ELSE IF key.itemId \in ItemIds THEN key.itemId ELSE 0

\* the item lookup of add returns (or rejects: the handler has no try/catch, the
\* request is never answered)
AddItem(f) ==
    /\ f.pc = "add.item"
    /\ LET id == FindItem(f.key)
       IN \/ /\ req' = Resume(f)
             /\ last' = Response("add", f.cart, "NoResponse", FALSE, 0)
             /\ UNCHANGED heap
          \/ /\ id = 0
             /\ req' = Resume(f)
             /\ last' = Response("add", f.cart, "ItemNotFound", FALSE, 0)
             /\ UNCHANGED heap
          \/ /\ id # 0 /\ ItemRow(id).taxId # 0
             /\ req' = Continue(f, [pc |-> "add.tax", cart |-> f.cart, item |-> id,
                                    qty |-> f.qty])
             /\ UNCHANGED << heap, last >>
          \/ /\ id # 0 /\ ItemRow(id).taxId = 0
             /\ Push(f, NewLine(ItemRow(id), 0, -1, f.qty))
    /\ UNCHANGED << taxes, carts, nextId, receipts, audit, stockLedger, paymentMethods, now, nops >>

\* prisma.tax.findUnique of add returns (or rejects)
AddTax(f) ==
    /\ f.pc = "add.tax"
    /\ LET item == ItemRow(f.item)
       IN \/ /\ req' = Resume(f)
             /\ last' = Response("add", f.cart, "NoResponse", FALSE, 0)
             /\ UNCHANGED heap
          \/ Push(f, NewLine(item, item.taxId, TaxRate(item.taxId), f.qty))
    /\ UNCHANGED << taxes, carts, nextId, receipts, audit, stockLedger, paymentMethods, now, nops >>

\* ---------------------------------------------------------------- discount
Discount(c, pct) ==
    /\ Accept
    /\ \/ /\ ~HasCart(c)
          /\ last' = Response("discount", c, "CartNotFound", TRUE, 0)
          /\ UNCHANGED << heap, req >>
       \/ /\ HasCart(c)
          /\ LET Kept(f) == RefAfterReplace(f, c, Lines(c))
             IN /\ heap' = SetLines(c, DiscountLines(Lines(c), pct))
                /\ req' = BagOfAll(Kept, req)
          /\ last' = Response("discount", c, "ok", TRUE, 0)
    /\ UNCHANGED << taxes, carts, nextId, receipts, audit, stockLedger, paymentMethods, now >>

\* -------------------------------------------------------------- removeLine
\* idx is the 0-based lineIndex of the request
\* idx < 0 || idx >= cart.lines.length: both comparisons are false of NaN
OutOfRange(idx, lines) == idx # << >> /\ (idx[1] < 0 \/ idx[1] >= Len(lines))
\* the start index splice(idx, 1) uses: NaN is taken as 0
SpliceStart(idx) == IF idx = << >> THEN 0 ELSE idx[1]

RemoveLine(c, idx) ==
    /\ Accept
    /\ \/ /\ ~HasCart(c)
          /\ last' = Response("removeLine", c, "CartNotFound", TRUE, 0)
          /\ UNCHANGED << heap, req >>
       \/ /\ HasCart(c)
          /\ OutOfRange(idx, Lines(c))
          /\ last' = Response("removeLine", c, "LineNotFound", TRUE, 0)
          /\ UNCHANGED << heap, req >>
       \/ /\ HasCart(c)
          /\ ~OutOfRange(idx, Lines(c))
          /\ SpliceLine(c, SpliceStart(idx) + 1)
          /\ last' = Response("removeLine", c, "ok", TRUE, 0)
    /\ UNCHANGED << taxes, carts, nextId, receipts, audit, stockLedger, paymentMethods, now >>

\* -------------------------------------------------------------- updateLine
\* cart.lines[idx] is a line: undefined for NaN and for an index outside the array
HasLine(idx, lines) == idx # << >> /\ idx[1] + 1 \in 1..Len(lines)
\* quantity != null && Number(quantity) <= 0
RemovesOnlyAlone(patch) ==
    /\ patch.quantity # << >> /\ patch.quantity[1] <= 0
    /\ patch.unitPrice = << >> /\ patch.discount = << >>
Removes(patch) == patch.quantity # << >> /\ patch.quantity[1] <= 0

\* arrival of POST /api/checkout/updateLine, up to its await
UpdateEntry(c, idx, patch) ==
    /\ Accept
    /\ \/ /\ ~HasCart(c)
          /\ last' = Response("updateLine", c, "CartNotFound", TRUE, 0)
          /\ UNCHANGED << heap, req >>
       \/ /\ HasCart(c)
          /\ ~HasLine(idx, Lines(c))
          /\ last' = Response("updateLine", c, "LineNotFound", TRUE, 0)
          /\ UNCHANGED << heap, req >>
       \/ /\ HasCart(c)
          /\ HasLine(idx, Lines(c))
          /\ Removes(patch)
          /\ SpliceLine(c, idx[1] + 1)
          /\ last' = Response("updateLine", c, "ok", TRUE, 0)
       \/ /\ HasCart(c)
          /\ HasLine(idx, Lines(c))
          /\ ~Removes(patch)
          /\ LET n == idx[1] + 1
                 line == PatchLine(Lines(c)[n], patch)
             IN IF line.taxRateId # 0
                THEN /\ HasFree
                     /\ heap' = SetLines(c, [Lines(c) EXCEPT ![n] = line])
                     /\ req' = Suspend([pc |-> "upd.tax", cart |-> c, ref |-> n])
                     /\ UNCHANGED last
                ELSE /\ heap' = SetLines(c, [Lines(c) EXCEPT
                                                ![n] = RecomputeLine(line, 0)])
                     /\ last' = Response("updateLine", c, "ok", TRUE, 0)
                     /\ UNCHANGED req
    /\ UNCHANGED << taxes, carts, nextId, receipts, audit, stockLedger, paymentMethods, now >>

\* prisma.tax.findUnique of updateLine returns (or rejects into the catch)
UpdateTax(f) ==
    /\ f.pc = "upd.tax"
    /\ \/ /\ last' = Response("updateLine", f.cart, "Error", FALSE, 0)
          /\ UNCHANGED heap
       \/ /\ f.ref = 0
          /\ last' = Response("updateLine", f.cart, "ok", FALSE, 0)
          /\ UNCHANGED heap
       \/ /\ f.ref # 0
          /\ LET line == Lines(f.cart)[f.ref]
             IN heap' = SetLines(f.cart, [Lines(f.cart) EXCEPT
                            ![f.ref] = RecomputeLine(line, TaxRate(line.taxRateId))])
          /\ last' = Response("updateLine", f.cart, "ok", FALSE, 0)
    /\ req' = Resume(f)
    /\ UNCHANGED << taxes, carts, nextId, receipts, audit, stockLedger, paymentMethods, now, nops >>

\* ---------------------------------------------------------------- complete
\* mutant of Retire: the settled cart stays in the registry
RetireKeepsCart(c) == carts

\* delete carts[cartId]
Retire(c) == carts \ {c}

\* the data object handed to prisma.receipt.create; cart.lines is read when the
\* call is made, the totals and the number were computed when the request arrived
ReceiptData(f, lines, createPayments) ==
    [receiptNumber |-> f.receiptNumber,
     totalBeforeDiscount |-> f.totals.totalBeforeDiscount,
     totalDiscount |-> f.totals.totalDiscount,
     totalTax |-> f.totals.totalTax,
     totalAmount |-> f.totals.totalAmount,
     cgst |-> f.totals.cgst, sgst |-> f.totals.sgst, igst |-> f.totals.igst,
     status |-> "COMPLETED",
     lines |-> ReceiptLines(lines),
     payments |-> createPayments]

\* the catch block: res.status(400).json({ error: err.message })
Fail(f, message) ==
    /\ req' = Resume(f)
    /\ last' = Response("complete", f.cart, message, FALSE, 0)

\* receipt numbers a stored receipt or a running settle carries
NumbersInUse ==
    { receipts[k].receiptNumber : k \in 1..Len(receipts) }
    \cup { f.receiptNumber : f \in { g \in Frames : g.pc \in {"set.find", "set.pmcreate",
                                                              "set.pmcreate2"} } }
    \cup { f.data.receiptNumber : f \in { g \in Frames : g.pc = "set.create" } }
    \cup { f.pend.reference : f \in { g \in Frames : g.pc = "set.stock" } }

\* What Date.now() and Math.random() may give.  Only whether two numbers are
\* equal matters, so while no number is in use the clock stays and the draw is 0;
\* otherwise the clock may have moved on, and at a clock value not seen before
\* (no number carries it) the draw is 0, else any of RandomDraws.
ClockInputs == IF NumbersInUse = {} THEN {now} ELSE {now, now + 1}
DrawInputs(clock) == IF NumbersInUse = {} \/ clock # now THEN {0} ELSE RandomDraws

\* mutant of CartEmpty: the empty check never fires
CartNeverEmpty(c) == FALSE

\* !cart.lines.length
CartEmpty(c) == Len(Lines(c)) = 0

\* arrival of POST /api/checkout/complete, up to its first await.  clock is what
\* Date.now() returns and draw what Math.random() gives.
CompleteEntry(c, payments, clock, draw) ==
    /\ Accept
    /\ \/ /\ ~HasCart(c)
          /\ last' = Response("complete", c, "CartNotFound", TRUE, 0)
          /\ UNCHANGED << req, now >>
       \/ /\ HasCart(c)
          /\ CartEmpty(c)
          /\ last' = Response("complete", c, "CartEmpty", TRUE, 0)
          /\ UNCHANGED << req, now >>
       \/ /\ HasCart(c)
          /\ ~CartEmpty(c)
          /\ HasFree
          /\ now' = clock
          /\ LET f == [cart |-> c, payments |-> payments, totals |-> Totals(Lines(c)),
                       receiptNumber |-> receiptNumber(clock, draw)]
             IN req' = Suspend(
                    IF payments = << >>
                    THEN [pc |-> "set.create", cart |-> c, payments |-> payments,
                          data |-> ReceiptData(f, Lines(c), << >>)]
                    ELSE [pc |-> "set.find", i |-> 1, createPayments |-> << >>] @@ f)
          /\ UNCHANGED last
    /\ UNCHANGED << taxes, carts, heap, nextId, receipts, audit, stockLedger, paymentMethods >>

\* mutant of PaymentRecord: the tender's reference is dropped
PaymentRecordNoReference(p, pm) ==
    [amount |-> p.amount, reference |-> "", status |-> "SUCCESS", paymentMethod |-> pm]

\* the object pushed on createPayments for tender p and the method row pm
PaymentRecord(p, pm) ==
    [amount |-> p.amount, reference |-> p.reference, status |-> "SUCCESS",
     paymentMethod |-> pm]

\* createPayments.push({...}) and the next turn of the payments loop, or, after
\* the last tender, the call of prisma.receipt.create
PushPayment(f, pm) ==
    LET cps == Append(f.createPayments, PaymentRecord(f.payments[f.i], pm))
    IN req' = Continue(f,
           IF f.i < Len(f.payments)
           THEN [f EXCEPT !.pc = "set.find", !.i = f.i + 1, !.createPayments = cps]
           ELSE [pc |-> "set.create", cart |-> f.cart, payments |-> f.payments,
                 data |-> ReceiptData(f, Lines(f.cart), cps)])

\* prisma.paymentMethod.findFirst returns (or rejects)
CompleteFind(f) ==
    /\ f.pc = "set.find"
    /\ LET m == methodName(f.payments[f.i].method)
           found == { pm \in paymentMethods : pm.code = m \/ pm.name = m }
       IN \/ Fail(f, "Error")
          \/ /\ found # {}
             /\ \E pm \in found : PushPayment(f, pm)
             /\ UNCHANGED last
          \/ /\ found = {}
             /\ req' = Continue(f, [f EXCEPT !.pc = "set.pmcreate"])
             /\ UNCHANGED last
    /\ UNCHANGED << taxes, carts, heap, nextId, receipts, audit, stockLedger, paymentMethods,
                    now, nops >>

\* prisma.paymentMethod.create({ code, name }) returns, or rejects (always when
\* the code is taken: PaymentMethod.code is unique) into the inner catch
CompletePmCreate(f) ==
    /\ f.pc = "set.pmcreate"
    /\ LET m == methodName(f.payments[f.i].method)
           pm == [code |-> m, name |-> m]
       IN \/ /\ \A x \in paymentMethods : x.code # m
             /\ paymentMethods' = paymentMethods \cup {pm}
             /\ PushPayment(f, pm)
          \/ /\ req' = Continue(f, [f EXCEPT !.pc = "set.pmcreate2"])
             /\ UNCHANGED paymentMethods
    /\ UNCHANGED << taxes, carts, heap, nextId, receipts, audit, stockLedger, now, nops, last >>

\* the fallback prisma.paymentMethod.create({ name }) returns (or rejects)
CompletePmCreate2(f) ==
    /\ f.pc = "set.pmcreate2"
    /\ LET pm == [code |-> "", name |-> methodName(f.payments[f.i].method)]
       IN \/ /\ paymentMethods' = paymentMethods \cup {pm}
             /\ PushPayment(f, pm)
             /\ UNCHANGED last
          \/ /\ Fail(f, "Error")
             /\ UNCHANGED paymentMethods
    /\ UNCHANGED << taxes, carts, heap, nextId, receipts, audit, stockLedger, now, nops >>

\* delete carts[cartId]; res.json(receipt)
Finish(f, rid) ==
    /\ carts' = Retire(f.cart)
    /\ req' = Resume(f)
    /\ last' = Response("complete", f.cart, "ok", FALSE, rid)

\* mutant of ReceiptCreate: the write voids the Receipts stored before
ReceiptCreateVoiding(rows, data) ==
    Append([k \in 1..Len(rows) |-> [rows[k] EXCEPT !.status = "VOID"]], data)
\* prisma.receipt.create: one new Receipt row with its lines and payments
ReceiptCreate(rows, data) == Append(rows, data)

\* mutant of NumberTaken: the store accepts a receipt number it already holds
NumberNeverTaken(number) == FALSE

\* The Receipt table keeps receiptNumber unique (its declaration,
\* prisma/schema.prisma, is not among the sources): an insert of a number a
\* stored Receipt carries is rejected.
NumberTaken(number) == \E k \in 1..Len(receipts) : receipts[k].receiptNumber = number

\* prisma.receipt.create returns (or rejects: the nested write stores nothing),
\* then the stock loop takes the iterator of cart.lines and makes its first call
CompleteCreate(f) ==
    /\ f.pc = "set.create"
    /\ LET c == f.cart
           rid == Len(receipts) + 1
       IN \/ /\ Fail(f, "Error")
             /\ UNCHANGED << carts, receipts, audit >>
          \/ /\ NumberTaken(f.data.receiptNumber)
             /\ Fail(f, "ReceiptNumberTaken")
             /\ UNCHANGED << carts, receipts, audit >>
          \/ /\ ~NumberTaken(f.data.receiptNumber)
             /\ receipts' = ReceiptCreate(receipts, f.data)
             /\ IF Lines(c) # << >>
                THEN /\ req' = Continue(f,
                            [pc |-> "set.stock", cart |-> c, rid |-> rid,
                             pend |-> StockEntry(Lines(c)[1], f.data.receiptNumber),
                             live |-> TRUE, idx |-> 2, rest |-> << >>])
                     /\ audit' = Append(audit, [cartId |-> c, outcome |-> "running",
                                                     payments |-> f.payments])
                     /\ UNCHANGED << carts, last >>
                ELSE /\ Finish(f, rid)
                     /\ audit' = Append(audit, [cartId |-> c, outcome |-> "ok",
                                                     payments |-> f.payments])
    /\ UNCHANGED << taxes, heap, nextId, stockLedger, paymentMethods, now, nops >>

\* prisma.stockLedger.create returns (or rejects), then the loop's next turn
CompleteStock(f) ==
    /\ f.pc = "set.stock"
    /\ LET arr == IF f.live THEN Lines(f.cart) ELSE f.rest
           at == IF f.live THEN f.idx ELSE 1
       IN \/ /\ Fail(f, "Error")
             /\ audit' = [audit EXCEPT ![f.rid].outcome = "error"]
             /\ UNCHANGED << carts, stockLedger >>
          \/ /\ stockLedger' = Append(stockLedger, f.pend)
             /\ IF at <= Len(arr)
                THEN /\ req' = Continue(f,
                            [f EXCEPT !.pend = StockEntry(arr[at], f.pend.reference),
                                      !.idx = IF f.live THEN f.idx + 1 ELSE f.idx,
                                      !.rest = IF f.live THEN << >> ELSE Tail(f.rest)])
                     /\ UNCHANGED << carts, audit, last >>
                ELSE /\ Finish(f, f.rid)
                     /\ audit' = [audit EXCEPT ![f.rid].outcome = "ok"]
    /\ UNCHANGED << taxes, heap, nextId, receipts, paymentMethods, now, nops >>

\* -------------------------------------------------------------------- next
Next ==
    \/ Start
    \/ \E c \in CartInputs, b \in AddInputs : AddEntry(c, b.key, b.qty)
    \/ \E f \in Frames : AddItem(f)
    \/ \E f \in Frames : AddTax(f)
    \/ \E c \in CartInputs, pct \in PercentInputs : Discount(c, pct)
    \/ \E c \in CartInputs, idx \in IndexInputs : RemoveLine(c, idx)
    \/ \E c \in CartInputs, idx \in IndexInputs, patch \in PatchInputs :
            UpdateEntry(c, idx, patch)
    \/ \E f \in Frames : UpdateTax(f)
    \/ \E clock \in ClockInputs : \E draw \in DrawInputs(clock) :
          \E c \in CartInputs, payments \in PaymentInputs :
              CompleteEntry(c, payments, clock, draw)
    \/ \E f \in Frames : CompleteFind(f)
    \/ \E f \in Frames : CompletePmCreate(f)
    \/ \E f \in Frames : CompletePmCreate2(f)
    \/ \E f \in Frames : CompleteCreate(f)
    \/ \E f \in Frames : CompleteStock(f)
    \/ \E id \in TaxIds, rate \in RateInputs : SetTaxRate(id, rate)

Spec == Init /\ [][Next]_vars

\* The persistence layer settles every call it was given and the event loop runs
\* the continuation of every settled promise: a suspended handler goes on.
Returns ==
    \E f \in Frames :
        \/ AddItem(f) \/ AddTax(f) \/ UpdateTax(f)
        \/ CompleteFind(f) \/ CompletePmCreate(f) \/ CompletePmCreate2(f)
        \/ CompleteCreate(f) \/ CompleteStock(f)
LiveSpec == Spec /\ WF_vars(Returns)

\* the step is the arrival of a request at one of the checkout routes
RequestArrives == nops' = nops + 1 /\ taxes' = taxes

\* ================================================================== claims
ReceiptIds == 1..Len(receipts)

\* carts whose settle returned a Receipt
SettledCarts == { audit[k].cartId : k \in { j \in ReceiptIds : audit[j].outcome = "ok" } }

\* the stock ledger rows that carry a receipt number as their reference
StockOf(number) ==
    LET Mine(e) == e.type = "SALE" /\ e.reference = number
    IN SelectSeq(stockLedger, Mine)

Paid(receipt) == Sum([k \in 1..Len(receipt.payments) |-> receipt.payments[k].amount])

\* C1: of the settle requests made for one cart, at most one returns a Receipt
\* (the others fail with CartNotFound): no two Receipts of one cart were both
\* returned to their callers.
C1_OneSettleSucceedsPerCart ==
    \A i, j \in ReceiptIds :
        (i # j /\ audit[i].cartId = audit[j].cartId)
            => ~(audit[i].outcome = "ok" /\ audit[j].outcome = "ok")

\* C2: settlement is all-or-nothing: every stored Receipt whose settle has ended
\* (with a Receipt or with an error) has one stock ledger row per receipt line
\* carrying its number, and every SALE row carries the number of a stored Receipt.
C2_AllOrNothing ==
    /\ \A k \in ReceiptIds :
          audit[k].outcome # "running"
              => Len(StockOf(receipts[k].receiptNumber)) = Len(receipts[k].lines)
    /\ \A e \in 1..Len(stockLedger) :
          \E k \in ReceiptIds : receipts[k].receiptNumber = stockLedger[e].reference

\* C3: a settle that answered its caller with an error has left no Receipt in
\* the store.
C3_ErrorMeansNoReceipt ==
    \A k \in ReceiptIds : audit[k].outcome # "error"

\* C4: a Receipt is created only when the tenders cover the grand total: every
\* stored Receipt that has tenders has paid >= totalAmount.
C4_PaidCoversTotal ==
    \A k \in ReceiptIds :
        receipts[k].payments # << >> => Paid(receipts[k]) >= receipts[k].totalAmount

\* C5: a cart is consumed once: over all settle attempts on it, retries
\* included, at most one Receipt is created from one cart and the stock ledger
\* gets at most one SALE row per cart line.
C5_CartConsumedOnce ==
    \A i, j \in ReceiptIds : i # j => audit[i].cartId # audit[j].cartId

\* C6: for every Receipt a settle returned, the stock ledger rows carrying its
\* number are one per receipt line, in line order, each with the line's itemId
\* and the negated quantity of the line.
C6_StockMatchesReceiptLines ==
    \A k \in ReceiptIds :
        audit[k].outcome = "ok"
            => StockOf(receipts[k].receiptNumber)
                 = [n \in 1..Len(receipts[k].lines) |->
                        [itemId |-> receipts[k].lines[n].itemId,
                         quantity |-> -receipts[k].lines[n].quantity,
                         type |-> "SALE",
                         reference |-> receipts[k].receiptNumber]]

\* C7: every stored Receipt carries the totals of its own stored lines:
\* totalAmount, totalTax, totalDiscount and totalBeforeDiscount are the sums over
\* the receipt's lines of lineTotal, taxAmount, discount and unitPrice*quantity.
C7_ReceiptTotalsMatchLines ==
    \A k \in ReceiptIds :
        LET t == Totals(receipts[k].lines)
        IN /\ receipts[k].totalAmount = t.totalAmount
           /\ receipts[k].totalTax = t.totalTax
           /\ receipts[k].totalDiscount = t.totalDiscount
           /\ receipts[k].totalBeforeDiscount = t.totalBeforeDiscount

\* C8: once a settle has returned a Receipt for cart c, every request that
\* arrives naming c (add, updateLine, removeLine, discount, complete) is answered
\* CartNotFound before its first await, none gets past the cart lookup, and the
\* step changes neither the registry nor the stored receipts and stock ledger.
C8_SettledCartIsGone ==
    [][ \A c \in SettledCarts :
            RequestArrives
                => /\ \A f \in BagToSet(req') :
                          CopiesIn(f, req') > CopiesIn(f, req) => f.cart # c
                   /\ (req' = req /\ last'.cart = c)
                          => /\ last'.status = "CartNotFound"
                             /\ last'.entry
                             /\ carts' = carts
                             /\ receipts' = receipts
                             /\ stockLedger' = stockLedger ]_vars

\* C8 witness: a request naming a settled cart has just been answered CartNotFound
C8_Witness ==
    /\ last.cart \in SettledCarts
    /\ last.op \in {"add", "updateLine", "removeLine", "discount", "complete"}
    /\ last.entry
    /\ last.status = "CartNotFound"

SettlingCarts ==
    { f.cart : f \in { g \in Frames : g.pc \in {"set.find", "set.pmcreate", "set.pmcreate2",
                                               "set.create", "set.stock"} } }

\* C9: while a settle of a cart is in progress (validated, the cart not yet
\* retired) no step changes the lines of that cart.
C9_NoMutationWhileSettling ==
    [][ \A c \in SettlingCarts : Lines(c)' = Lines(c) ]_vars

C11_NoReceiptWithoutTender ==
    /\ \A k \in ReceiptIds : receipts[k].payments # << >>
    /\ \A e \in 1..Len(stockLedger) :
          \A k \in ReceiptIds :
              receipts[k].receiptNumber = stockLedger[e].reference
                  => receipts[k].payments # << >>

SettlePcs == {"set.find", "set.pmcreate", "set.pmcreate2", "set.create", "set.stock"}
\* where a settle is after its arrival: at its first tender's method lookup or,
\* without tenders, at the receipt write
ArrivalPcs == {"set.find", "set.create"}

\* C12: a settle that arrives for a cart of the registry that has no lines is
\* answered CartEmpty before its first await, whatever its tenders: it never
\* gets past the check and the step stores no Receipt and no stock row.
C12_EmptyCartIsRefused ==
    [][ \A c \in carts :
            (heap[c].lines = << >> /\ RequestArrives)
                => /\ \A f \in BagToSet(req') :
                          (CopiesIn(f, req') > CopiesIn(f, req) /\ f.cart = c)
                              => f.pc \notin ArrivalPcs
                   /\ (last'.op = "complete" /\ last'.cart = c /\ req' = req)
                          => /\ last'.status = "CartEmpty"
                             /\ last'.entry
                             /\ carts' = carts
                             /\ receipts' = receipts
                             /\ stockLedger' = stockLedger ]_vars

\* C12 witness: a settle of a registered cart without lines has just been
\* answered CartEmpty
C12_Witness ==
    /\ last.op = "complete"
    /\ last.status = "CartEmpty"
    /\ last.entry
    /\ last.cart \in carts
    /\ heap[last.cart].lines = << >>

\* the tenders a running settle was given and the grand total it computed
TendersOf(f) ==
    IF f.pc = "set.create" THEN f.data.payments
    ELSE IF f.pc = "set.stock" THEN receipts[f.rid].payments
    ELSE f.payments
TotalOf(f) ==
    IF f.pc = "set.create" THEN f.data.totalAmount
    ELSE IF f.pc = "set.stock" THEN receipts[f.rid].totalAmount
    ELSE f.totals.totalAmount
\* the settle has no tender (NoPayment) or its tenders do not cover the total
\* (InsufficientPayment)
FailsPayment(f) ==
    \/ TendersOf(f) = << >>
    \/ Sum([k \in 1..Len(TendersOf(f)) |-> TendersOf(f)[k].amount]) < TotalOf(f)

\* C13: a settle that fails validation changes nothing.  A settle answered on
\* arrival (CartNotFound, EmptyCart) leaves the registry, the carts and the store
\* as they were; and no step of a settle whose tenders are missing (NoPayment) or
\* do not cover the total (InsufficientPayment) changes the registry, a cart, the
\* receipts, the payment methods or the stock ledger.
C13_FailedValidationChangesNothing ==
    [][ /\ (RequestArrives /\ last'.op = "complete" /\ last'.entry /\ req' = req)
            => /\ carts' = carts /\ heap' = heap /\ receipts' = receipts
               /\ paymentMethods' = paymentMethods /\ stockLedger' = stockLedger
        /\ \A f \in Frames :
              (/\ f.pc \in SettlePcs
               /\ nops' = nops
               /\ CopiesIn(f, req') < CopiesIn(f, req)
               /\ FailsPayment(f))
                  => /\ carts' = carts /\ heap' = heap /\ receipts' = receipts
                     /\ paymentMethods' = paymentMethods /\ stockLedger' = stockLedger ]_vars

\* frames that are in req after the step and were not before it
Arrived(f) == CopiesIn(f, req') > CopiesIn(f, req)

C14_Returned ==
    (last.op = "complete" /\ last.status = "ok")
        => /\ last.receipt \in ReceiptIds
           /\ audit[last.receipt].cartId = last.cart
           /\ audit[last.receipt].outcome = "ok"
           /\ LET receipt == receipts[last.receipt]
              IN Paid(receipt) >= receipt.totalAmount
                     => /\ due(receipt.totalAmount, Paid(receipt)) = 0
                        /\ Paid(receipt) = receipt.totalAmount
                               => change(receipt.totalAmount, Paid(receipt)) = 0

C14_Accepted ==
    RequestArrives
        => /\ (last'.op = "complete" /\ last'.entry /\ req' = req)
                  => (last'.cart \notin carts \/ heap[last'.cart].lines = << >>)
           /\ \A f \in BagToSet(req') :
                  (Arrived(f) /\ f.pc \in ArrivalPcs)
                      => TotalOf(f) = Sum([k \in 1..Len(heap[f.cart].lines) |->
                                              heap[f.cart].lines[k].lineTotal])

\* C14: a settle of a cart with lines is never turned away on arrival, whatever
\* its tenders (an overpayment does not block it); the grand total it carries to
\* the Receipt is the sum of lineTotal over the cart's lines at its arrival; the
\* Receipt a settle returns is the one stored for that cart; and for a returned
\* Receipt whose tenders cover the total the cashier's due is 0, and the change is
\* 0 when they sum exactly to it.
C14_CoveredSettleSucceeds == []C14_Returned /\ [][C14_Accepted]_vars

\* C14 witness: a settle with split tenders summing exactly to the grand total has
\* returned its Receipt
C14_Witness ==
    /\ last.op = "complete"
    /\ last.status = "ok"
    /\ last.receipt \in ReceiptIds
    /\ Len(receipts[last.receipt].payments) = 2
    /\ receipts[last.receipt].lines # << >>
    /\ Len(StockOf(receipts[last.receipt].receiptNumber)) = Len(receipts[last.receipt].lines)
    /\ Paid(receipts[last.receipt]) = receipts[last.receipt].totalAmount

\* the method row is the one the tender names, letter case aside
SameMethod(method, pm) ==
    \E x \in {pm.code, pm.name} :
        << method, x >> \in { << "CASH", "CASH" >>, << "upi", "UPI" >>, << "gold", "GOLD" >> }

Quiet(c) == \A f \in Frames : ~(f.pc = "upd.tax" /\ f.cart = c)
Base(l) == l.unitPrice * l.quantity
LinesOf(c) == { heap[c].lines[n] : n \in 1..Len(heap[c].lines) }

\* C16: in every cart of the registry that no updateLine is working on, every
\* line has lineTotal = unitPrice*quantity - discount + taxAmount.
C16_LineTotalIdentity ==
    \A c \in carts :
        Quiet(c) => \A l \in LinesOf(c) : l.lineTotal = Base(l) - l.discount + l.taxAmount

\* C17: in every cart of the registry that no updateLine is working on, every
\* line's taxAmount is (unitPrice*quantity - discount) * rate / 100 for the rate of
\* its tax row, and 0 when it has none; also after a cart discount.
C17_TaxFollowsDiscount ==
    \A c \in carts :
        Quiet(c) => \A l \in LinesOf(c) :
                        l.taxAmount = IF l.taxRateId # 0
                                      THEN Percent(Base(l) - l.discount, TaxRate(l.taxRateId))
                                      ELSE 0

\* C18: in every cart of the registry that no updateLine is working on, every
\* line of positive quantity has 0 <= discount <= unitPrice*quantity, and neither
\* its taxAmount nor its lineTotal is negative.
C18_DiscountWithinBase ==
    \A c \in carts :
        Quiet(c) => \A l \in LinesOf(c) :
                        l.quantity > 0
                            => /\ 0 <= l.discount /\ l.discount <= Base(l)
                               /\ l.taxAmount >= 0
                               /\ l.lineTotal >= 0

\* C19: every line of every cart of the registry has quantity > 0.
C19_QuantityPositive ==
    \A c \in carts : \A l \in LinesOf(c) : l.quantity > 0

\* C20: operations on one cart do not see each other's half-done work: no stored
\* Receipt has a line on which an updateLine had written its new fields but not
\* yet the recomputed amounts, so every receipt line has
\* lineTotal = unitPrice*quantity - discount + taxAmount.
C20_NoHalfUpdatedLineInReceipt ==
    \A k \in ReceiptIds :
        \A n \in 1..Len(receipts[k].lines) :
            LET l == receipts[k].lines[n]
            IN l.lineTotal = Base(l) - l.discount + l.taxAmount

\* C21: applying the same discount percentage twice in a row gives what applying
\* it once gives: for every cart of the registry and every percentage, the lines
\* (discount, taxAmount and lineTotal of each) and the four cart totals after
\* the second application are those after the first.
C21_DiscountIdempotent ==
    \A c \in carts : \A pct \in PercentInputs :
        LET once == DiscountLines(Lines(c), pct)
            twice == DiscountLines(once, pct)
        IN /\ twice = once
           /\ Totals(twice) = Totals(once)

\* C21 witness: a discount request has just been answered on a cart whose taxed
\* line carries the 10% discount, and asking for 10% again would change nothing
C21_Witness ==
    /\ last.op = "discount"
    /\ last.status = "ok"
    /\ last.cart \in carts
    /\ \E l \in LinesOf(last.cart) : l.taxAmount > 0 /\ l.discount = Percent(Base(l), 10)
    /\ DiscountLines(Lines(last.cart), 10) = Lines(last.cart)

\* C22: a discount request with a percentage outside [0, 100] on a cart of the
\* registry is answered InvalidDiscount and leaves every line of the cart as it was.
C22_PercentOutOfRangeRejected ==
    [][ \A c \in carts : \A pct \in PercentInputs :
            (pct < 0 \/ pct > 100) /\ Discount(c, pct)
                => /\ last'.status = "InvalidDiscount"
                   /\ heap'[c].lines = heap[c].lines ]_vars

\* C23: a discount request with percentage pct on a cart of the registry leaves
\* every line with discount = pct% of its unitPrice*quantity, whatever discount
\* the line carried before; the lines stay the same in number, order, price and
\* quantity.
C23_DiscountOverwrites ==
    [][ \A c \in carts : \A pct \in PercentInputs :
            Discount(c, pct)
                => /\ Len(heap'[c].lines) = Len(heap[c].lines)
                   /\ \A n \in 1..Len(heap[c].lines) :
                          LET old == heap[c].lines[n]
                              new == heap'[c].lines[n]
                          IN /\ new.unitPrice = old.unitPrice
                             /\ new.quantity = old.quantity
                             /\ new.discount = (old.unitPrice * old.quantity * pct) \div 100
       ]_vars

\* C23 witness: the rice line was given a discount of 40 by updateLine (its tax
\* of 4 is 5% of 120 - 40), and a 10% discount request has since left it with 12
C23_Witness ==
    /\ last.op = "discount"
    /\ last.status = "ok"
    /\ last.cart \in carts
    /\ \E l \in LinesOf(last.cart) :
           /\ l.unitPrice = 120 * Rupee /\ l.quantity = 1
           /\ l.taxAmount = 4 * Rupee
           /\ l.discount = 12 * Rupee

\* C24: an updateLine request that supplies a quantity <= 0 and addresses an
\* existing line of a registered cart deletes that line, also when the request
\* supplies a unitPrice or a discount: the cart is left with the other lines, in
\* order and as they were, so no line holds the supplied quantity.
C24_NonPositiveQuantityDeletes ==
    [][ \A c \in carts : \A idx \in IndexInputs : \A patch \in PatchInputs :
            /\ patch.quantity # << >> /\ patch.quantity[1] <= 0
            /\ HasLine(idx, heap[c].lines)
            /\ UpdateEntry(c, idx, patch)
            => /\ heap'[c].lines = Splice(heap[c].lines, idx[1] + 1)
               /\ Len(heap'[c].lines) = Len(heap[c].lines) - 1
               /\ last'.status = "ok"
       ]_vars

\* C24 witness: an updateLine with quantity 0, a unitPrice and a discount has just
\* been answered and has left its cart with one line, the line of item 2 as the
\* add made it; no updateLine that changes a line leaves it so
C24_Witness ==
    /\ last.op = "updateLine"
    /\ last.status = "ok"
    /\ last.entry
    /\ last.cart \in carts
    /\ Len(Lines(last.cart)) = 1
    /\ Lines(last.cart)[1] = NewLine(ItemRow(2), 0, -1, 1)

\* the index addresses a line: it is a number from 0 to the number of lines - 1
Addresses(idx, lines) == idx # << >> /\ idx[1] >= 0 /\ idx[1] < Len(lines)

\* C25: an updateLine or removeLine request on a registered cart whose index does
\* not address a line of the cart (negative, not below the number of lines,
\* missing or not numeric) is answered LineNotFound and leaves the lines of the
\* cart unchanged.
C25_BadIndexIsLineNotFound ==
    [][ \A c \in carts : \A idx \in IndexInputs :
            /\ ~Addresses(idx, heap[c].lines)
            /\ \/ RemoveLine(c, idx)
               \/ \E patch \in PatchInputs : UpdateEntry(c, idx, patch)
            => /\ last'.status = "LineNotFound"
               /\ heap'[c].lines = heap[c].lines ]_vars

\* C26: an add that is answered ok has appended exactly one line, for the item it
\* looked up, at the end of its cart: the cart has one line more, the lines it
\* had keep their values and positions (also a line of the same item), and no
\* other cart changes.
C26_AddAppendsOneLine ==
    [][ \A f \in Frames :
            /\ f.pc \in {"add.item", "add.tax"}
            /\ req' = Resume(f)
            /\ last' = Response("add", f.cart, "ok", FALSE, 0)
            => LET old == heap[f.cart].lines
                   new == heap'[f.cart].lines
               IN /\ Len(new) = Len(old) + 1
                  /\ SubSeq(new, 1, Len(old)) = old
                  /\ new[Len(new)].itemId
                         = (IF f.pc = "add.item" THEN FindItem(f.key) ELSE f.item)
                  /\ new[Len(new)].quantity = f.qty
                  /\ \A c \in DOMAIN heap : c # f.cart => heap'[c] = heap[c]
       ]_vars

\* C26 witness: an add has just been answered ok on a cart that now holds two
\* lines of the same item, each of quantity 1
C26_Witness ==
    /\ last.op = "add"
    /\ last.status = "ok"
    /\ last.cart \in carts
    /\ Len(Lines(last.cart)) = 2
    /\ Lines(last.cart)[1].itemId = Lines(last.cart)[2].itemId
    /\ Lines(last.cart)[1].quantity = 1
    /\ Lines(last.cart)[2].quantity = 1

\* C27: no stored Receipt contains a payment whose amount is <= 0.
C27_NoNonPositivePayment ==
    \A k \in ReceiptIds :
        \A n \in 1..Len(receipts[k].payments) : receipts[k].payments[n].amount > 0

\* C28: the set of payment methods is closed: the payment-method records of the
\* store are at all times the seeded ones, settle never adds one.
C28_PaymentMethodsClosed == paymentMethods = SeededMethods

C30_DueAndChange ==
    \A c \in carts : \A tenders \in PaymentInputs :
        LET grandTotal == GrandTotalOf(Lines(c))
            paid == PaidTotalOf(tenders)
        IN /\ due(grandTotal, paid) = Max(0, grandTotal - paid)
           /\ change(grandTotal, paid) = Max(0, paid - grandTotal)
           /\ ~(due(grandTotal, paid) > 0 /\ change(grandTotal, paid) > 0)
           /\ due(grandTotal, paid) - change(grandTotal, paid) = grandTotal - paid

C32_EveryRequestIsAnswered ==
    /\ [](last.status # "NoResponse")
    /\ <>[](req = EmptyBag)

\* C33: the price and the tax of a line are a snapshot taken when the line is
\* created: a change of a Tax row's percentage changes no line of any cart, and
\* an updateLine answered ok leaves its line with the tax of the rate the line
\* was created with, on the line's unitPrice, quantity and discount.
C33_LineKeepsItsRate ==
    [][ /\ taxes' # taxes => heap' = heap
        /\ \A f \in Frames :
              (/\ f.pc = "upd.tax"
               /\ f.ref # 0
               /\ req' = Resume(f)
               /\ last' = Response("updateLine", f.cart, "ok", FALSE, 0))
                  => LET old == heap[f.cart].lines[f.ref]
                         new == heap'[f.cart].lines[f.ref]
                     IN /\ new.unitPrice = old.unitPrice
                        /\ new.taxAmount = Percent(Base(new) - new.discount, old.rate)
                        /\ new.lineTotal = Base(new) - new.discount + new.taxAmount
      ]_vars

\* the lines of a sequence of lines that are of item id
LinesOfItem(lines, id) == { n \in 1..Len(lines) : lines[n].itemId = id }

\* C34: a line whose add was answered ok is never dropped by a settle: when a
\* cart has left the registry, a Receipt created from it holds every line the
\* cart object holds (item by item, at least as many lines), so no line was
\* pushed to the cart after the Receipt was written.
C34_AcknowledgedLineIsKept ==
    \A c \in DOMAIN heap :
        c \notin carts
            => \E k \in ReceiptIds :
                   /\ audit[k].cartId = c
                   /\ \A id \in ItemIds :
                          Cardinality(LinesOfItem(heap[c].lines, id))
                              <= Cardinality(LinesOfItem(receipts[k].lines, id))

\* the step changes line n of cart c at most: the other lines keep their values
\* and their positions
OnlyLineChanged(c, n) ==
    /\ Len(heap'[c].lines) = Len(heap[c].lines)
    /\ \A m \in 1..Len(heap[c].lines) : m # n => heap'[c].lines[m] = heap[c].lines[m]
    /\ \A d \in DOMAIN heap : d # c => heap'[d] = heap[d]

\* the step takes line n out of cart c: the other lines keep their values and
\* their order
OnlyLineRemoved(c, n) ==
    /\ Len(heap'[c].lines) = Len(heap[c].lines) - 1
    /\ \A m \in 1..Len(heap'[c].lines) :
           heap'[c].lines[m] = heap[c].lines[IF m < n THEN m ELSE m + 1]
    /\ \A d \in DOMAIN heap : d # c => heap'[d] = heap[d]

\* C35: an updateLine or removeLine answered ok for index i changes only line i
\* of its cart: an updateLine either writes to line i alone (on arrival, and
\* again when its tax lookup returns) or takes line i out, a removeLine takes
\* line i out, and every other line keeps all its values and its place in the
\* insertion order; no other cart changes.
C35_OnlyTheAddressedLineChanges ==
    [][ /\ \A c \in carts : \A idx \in IndexInputs :
              Addresses(idx, heap[c].lines)
                  => /\ RemoveLine(c, idx) => OnlyLineRemoved(c, idx[1] + 1)
                     /\ heap' # heap
                            => \A patch \in PatchInputs :
                                   UpdateEntry(c, idx, patch)
                                       => \/ OnlyLineChanged(c, idx[1] + 1)
                                          \/ OnlyLineRemoved(c, idx[1] + 1)
        /\ \A f \in Frames :
              (f.pc = "upd.tax" /\ req' = Resume(f))
                  => IF f.ref = 0 THEN heap' = heap ELSE OnlyLineChanged(f.cart, f.ref)
      ]_vars

\* C35 witness: a removeLine for index 0 has just been answered ok on a cart that
\* held the line of item 2 and the rice line: the rice line is left, as add made it
C35_Witness ==
    /\ last.op = "removeLine"
    /\ last.status = "ok"
    /\ last.cart \in carts
    /\ Lines(last.cart) = << NewLine(ItemRow(1), 2, 5, 1) >>

\* C36: a cart leaves the registry only when a settle of that cart returns its
\* Receipt: a step that takes an id out of the registry is the last step of a
\* complete on that cart, answered ok with a stored Receipt of the cart; an id
\* that has left the registry never enters it again; the only id a step adds is
\* the fresh one start issues; and an id in the registry keeps its cart object.
C36_CartLeavesOnlyBySettle ==
    [][ /\ \A c \in carts :
              c \notin carts'
                  => /\ \E f \in Frames :
                            f.pc \in SettlePcs /\ f.cart = c /\ req' = Resume(f)
                     /\ last'.op = "complete" /\ last'.cart = c /\ last'.status = "ok"
                     /\ last'.receipt \in 1..Len(receipts')
                     /\ audit'[last'.receipt].cartId = c
                     /\ carts' = carts \ {c}
        /\ \A c \in DOMAIN heap : c \notin carts => c \notin carts'
        /\ carts' \ carts \subseteq {nextId}
        /\ \A c \in carts : heap'[c].id = heap[c].id
      ]_vars

\* C36 witness: a settle has failed after its Receipt was written and its cart is
\* still in the registry, with its lines
C36_Witness ==
    /\ last.op = "complete"
    /\ last.status = "Error"
    /\ last.cart \in carts
    /\ Lines(last.cart) # << >>
    /\ \E k \in ReceiptIds : audit[k].cartId = last.cart /\ audit[k].outcome = "error"

\* C37: Receipts are append-only: every step leaves each stored Receipt as it is
\* (lines, payments, totals, number, status) and in its place; a step changes
\* the stored Receipts at most by adding one at the end.
C37_ReceiptsAppendOnly ==
    [][ /\ Len(receipts') \in {Len(receipts), Len(receipts) + 1}
        /\ \A k \in ReceiptIds : receipts'[k] = receipts[k] ]_vars

\* C37 witness: a second settlement has stored its Receipt after the first,
\* and the first Receipt is still COMPLETED and still has its lines
C37_Witness ==
    /\ Len(receipts) = 2
    /\ receipts[1].status = "COMPLETED"
    /\ receipts[1].lines # << >>

\* C38: every amount stored in a Receipt is a whole number of paise: the
\* taxAmount, discount and lineTotal of each of its lines, its four totals,
\* and its cgst and sgst.
WholePaise(n) == n % Paisa = 0
C38_ReceiptAmountsAreWholePaise ==
    \A k \in ReceiptIds :
        LET r == receipts[k]
        IN /\ \A n \in 1..Len(r.lines) :
                  /\ WholePaise(r.lines[n].taxAmount)
                  /\ WholePaise(r.lines[n].discount)
                  /\ WholePaise(r.lines[n].lineTotal)
           /\ WholePaise(r.totalBeforeDiscount)
           /\ WholePaise(r.totalDiscount)
           /\ WholePaise(r.totalTax)
           /\ WholePaise(r.totalAmount)
           /\ WholePaise(r.cgst)
           /\ WholePaise(r.sgst)

====
